---- MODULE Spec2Model ----
(***************************************************************************)
(* A model of node/sockdiag.c (heistp/antler): one netlink sock_diag       *)
(* session, its sampling calls, the response parser and the growable       *)
(* samples array.                                                          *)
(*                                                                         *)
(* The receive buffer is modelled as a sequence of 32-bit words as a       *)
(* little-endian host reads them; every header the code reads sits at a    *)
(* 4-byte aligned offset (NLMSG_ALIGN, RTA_ALIGN), so a word is the        *)
(* smallest unit the parser addresses.  Lengths are in bytes.              *)
(***************************************************************************)
EXTENDS Integers, Sequences, FiniteSets, TLC

(* ------------------------------------------------------------------ *)
(* Bounds of the model.                                                 *)
(* ------------------------------------------------------------------ *)

\* number of sockdiag_sample calls made on the session
MaxCalls == 2

(* ------------------------------------------------------------------ *)
(* Program constants.                                                   *)
(* ------------------------------------------------------------------ *)

INIT_CAP == 16
TCP_ESTABLISHED == 1
\* <linux/netlink.h>
NLMSG_HDRLEN == 16
NLMSG_ERROR == 2
NLMSG_DONE == 3
SizeofNlmsgerr == 20
\* <linux/rtnetlink.h>
SizeofRtattr == 4
\* <linux/sock_diag.h>, <linux/inet_diag.h>
SOCK_DIAG_BY_FAMILY == 20
SizeofInetDiagMsg == 72
INET_DIAG_MEMINFO == 1
INET_DIAG_INFO == 2
\* <linux/tcp.h>: sizeof(struct tcp_info)
SizeofTcpInfo == 232
\* <netinet/in.h>, <sys/socket.h>
AF_INET == 2
AF_INET6 == 10
\* <errno.h>
EINTR == 4
EAGAIN == 11
ENODATA == 61
ECONNREFUSED == 111

NULL == 0
\* <netinet/in.h>, <linux/netlink.h>, <linux/inet_diag.h>
IPPROTO_TCP == 6
NLM_F_REQUEST == 1
NLM_F_DUMP == 768
SizeofInetDiagReqV2 == 56

(* ------------------------------------------------------------------ *)
(* Integer arithmetic of the C types involved.                          *)
(* ------------------------------------------------------------------ *)

\* A 32-bit word is held as the int with the same bit pattern (TLC's integers
\* are 32 bits wide): an unsigned value of 2^31 or more is a negative int.
Pow2_16 == 256 * 256
INT_MAX == 2147483647
INT_MIN == -INT_MAX - 1

\* the word whose low and high 16-bit halves are lo and hi
Word(lo, hi) == IF hi >= Pow2_16 \div 2 THEN (hi - Pow2_16) * Pow2_16 + lo
                ELSE hi * Pow2_16 + lo

\* unsigned comparisons of a u32 (held as above) with a non-negative int k
UGe(w, k) == w < 0 \/ w >= k
ULe(w, k) == w >= 0 /\ w <= k
ULt(w, k) == w >= 0 /\ w < k

\* SubToInt yielding the distance between w and k
SubToInt_Magnitude(w, k) == IF w >= k THEN w - k ELSE k - w

\* (int)(w - k) for a u32 w and a small size_t k: the difference wraps
\* around (mod 2^64 or 2^32) and its low 32 bits are read as an int
SubToInt(w, k) ==
    IF w >= INT_MIN + k THEN w - k
    ELSE ((((w + INT_MAX) + 1) - k) + INT_MAX) + 1

\* 1 << k
RECURSIVE Pow2(_)
Pow2(k) == IF k = 0 THEN 1 ELSE 2 * Pow2(k - 1)

\* ALIGN rounding half the length up to a multiple of 4
ALIGN_Half(len) == ((len + 7) \div 8) * 4

\* NLMSG_ALIGN / RTA_ALIGN: round up to a multiple of 4
ALIGN(len) == ((len + 3) \div 4) * 4

\* NLMSG_LENGTH(len) == len + NLMSG_HDRLEN
NLMSG_LENGTH(len) == len + NLMSG_HDRLEN

\* htons that leaves the value as it was read
htons_Identity(x) == x

\* htons on a little-endian host: the two bytes of a 16-bit value swapped
htons(x) == (x % 256) * 256 + (x \div 256)

\* low and high 16-bit halves of a word (little-endian field order)
Lo16(w) == w % Pow2_16
Hi16(w) == (w \div Pow2_16) % Pow2_16

SeqOf(v, k) == [i \in 1..k |-> v]

(* ------------------------------------------------------------------ *)
(* The receive buffer b and the structures read from it.                *)
(* ------------------------------------------------------------------ *)

\* the 32-bit word at byte offset off of buffer b (off a multiple of 4)
WordAt(b, off) == b[(off \div 4) + 1]

\* struct nlmsghdr at offset h: nlmsg_len (u32), nlmsg_type (u16)
nlmsg_len(b, h) == WordAt(b, h)
nlmsg_type(b, h) == Lo16(WordAt(b, h + 4))

\* NLMSG_OK(h, n): n is an int, nlmsg_len a u32
NLMSG_OK(b, h, n) ==
    /\ n >= NLMSG_HDRLEN
    /\ UGe(nlmsg_len(b, h), NLMSG_HDRLEN)
    /\ ULe(nlmsg_len(b, h), n)

\* struct rtattr at offset a: rta_len (u16), rta_type (u16)
rta_len(b, a) == Lo16(WordAt(b, a))
rta_type(b, a) == Hi16(WordAt(b, a))

\* RTA_OK without the comparison of rta_len with the bytes left
RTA_OK_NoUpper(b, a, len) ==
    /\ len >= SizeofRtattr
    /\ rta_len(b, a) >= SizeofRtattr

\* RTA_OK(attr, len)
RTA_OK(b, a, len) ==
    /\ len >= SizeofRtattr
    /\ rta_len(b, a) >= SizeofRtattr
    /\ rta_len(b, a) <= len

\* struct inet_diag_msg at offset m
idiag_family(b, m) == WordAt(b, m) % 256
idiag_sport(b, m) == Lo16(WordAt(b, m + 4))
idiag_dport(b, m) == Hi16(WordAt(b, m + 4))
\* the k bytes of b from byte offset off on, as words
Bytes(b, off, k) == SubSeq(b, (off \div 4) + 1, (off + k) \div 4)

\* id.idiag_src and id.idiag_dst, 16 bytes each
idiag_src(b, m) == Bytes(b, m + 8, 16)
idiag_dst(b, m) == Bytes(b, m + 24, 16)

\* the sizeof(struct tcp_info) bytes at offset t
TcpInfoAt(b, t) == Bytes(b, t, SizeofTcpInfo)

\* memcpy of al bytes (4 or 16) of a 16-byte address over a zeroed field
CopyAddr(addr, al) == [i \in 1..4 |-> IF 4 * i <= al THEN addr[i] ELSE 0]

(* ------------------------------------------------------------------ *)
(* struct sample, struct samples and the heap.                          *)
(*                                                                      *)
(* A context c carries what one sockdiag_sample call reads and writes:  *)
(*   sample, len, cap   the caller's struct samples                     *)
(*   mem                the slots readable through c.sample, in order   *)
(*   live               the heap blocks allocated and not yet freed     *)
(*   status             how the call stands: "more" (it goes on),       *)
(*                      "done" (end of dump), "error" (error envelope), *)
(*                      "recvfail", "sendfail" (recv, sendmsg failed),  *)
(*                      "crashed" (an undefined operation trapped)      *)
(*   errno              the value the call has left in errno (0: none)  *)
(* and the history of the call:                                         *)
(*   log                every sample the call has written, in order,    *)
(*                      with the request whose response held it         *)
(*   from               the request answered by the datagram in hand    *)
(*   family             the family the call was given                   *)
(*   sent               the messages the call has handed to sendmsg     *)
(*   allocFailed        a realloc of this call has returned NULL        *)
(*   wild               a sample was written through a NULL pointer     *)
(*   oob                a sample was written at an index >= cap         *)
(*   grows              the values of len at which grow was called      *)
(*   n                  the received length of the datagram in hand     *)
(*   nenv, nattr        the envelopes and the attributes visited in the *)
(*                      datagram in hand                                *)
(*   walks              the calls of parse_response for the datagram in *)
(*                      hand                                            *)
(*   shrinks            every iteration of either loop so far took at   *)
(*                      least one header off the bytes left             *)
(*   pastAttr           a tcp_info was read that reaches past the end   *)
(*                      of its attribute                                *)
(*   pastRecv           a tcp_info was read that reaches past the       *)
(*                      received length                                 *)
(* ------------------------------------------------------------------ *)

\* a slot whose content is indeterminate (never written by this call)
Junk == [family |-> -1, saddr |-> <<>>, sport |-> 0, daddr |-> <<>>,
         dport |-> 0, info |-> <<>>]

\* samples->sample[idx] = s, on the slots readable through the pointer
StoreAt(mem, idx, s) ==
    IF idx < Len(mem) THEN [mem EXCEPT ![idx + 1] = s]
    ELSE (mem \o SeqOf(Junk, idx - Len(mem))) \o <<s>>

\* the block a successful allocation returns: one that is not allocated
NewBlock(live) == CHOOSE p \in 1..(Cardinality(live) + 1) : p \notin live

\* grow: the capacity becomes INIT_CAP or doubles, then realloc.  realloc
\* either fails (oom): the pointer is overwritten by NULL, the old block
\* stays allocated; or succeeds: a NULL pointer gets a fresh block of
\* indeterminate content, a block is resized keeping its content.
grow(c, oom) ==
    LET cap == IF c.cap = 0 THEN INIT_CAP ELSE c.cap * 2
    IN  IF oom
        THEN [c EXCEPT !.cap = cap, !.sample = NULL,
                       !.mem = SeqOf(Junk, Len(c.mem)),
                       !.allocFailed = TRUE,
                       !.grows = Append(c.grows, c.len)]
        ELSE IF c.sample = NULL
        THEN [c EXCEPT !.cap = cap, !.sample = NewBlock(c.live),
                       !.mem = SeqOf(Junk, Len(c.mem)),
                       !.live = c.live \cup {NewBlock(c.live)},
                       !.grows = Append(c.grows, c.len)]
        ELSE [c EXCEPT !.cap = cap,
                       !.grows = Append(c.grows, c.len)]

\* the compound literal of parse_response and the two memcpy's
MakeSample(b, m, a) ==
    LET al == IF idiag_family(b, m) = AF_INET THEN 4 ELSE 16
    IN  [family |-> idiag_family(b, m),
         saddr  |-> CopyAddr(idiag_src(b, m), al),
         sport  |-> htons(idiag_sport(b, m)),
         daddr  |-> CopyAddr(idiag_dst(b, m), al),
         dport  |-> htons(idiag_dport(b, m)),
         info   |-> TcpInfoAt(b, a + SizeofRtattr)]

\* samples->sample[samples->len] = ...; samples->len++
\* A write through a NULL pointer is undefined: it traps (the process is
\* killed) or lands in memory the call does not own.
WriteSample(c, s, ub) ==
    IF c.sample = NULL /\ ub = "trap"
    THEN [c EXCEPT !.status = "crashed"]
    ELSE [c EXCEPT !.mem = StoreAt(c.mem, c.len, s),
                   !.len = c.len + 1,
                   !.log = Append(c.log, [s |-> s, req |-> c.from]),
                   !.wild = c.wild \/ (c.sample = NULL),
                   !.oob = c.oob \/ (c.sample # NULL /\ c.len >= c.cap)]

\* the body of the INET_DIAG_INFO branch of parse_response
AppendSample(c, b, m, a, oom, ub) ==
    LET c1 == IF c.len >= c.cap THEN grow(c, oom) ELSE c
    IN  WriteSample(c1, MakeSample(b, m, a), ub)

\* *t reads sizeof(struct tcp_info) bytes from RTA_DATA(attr), the attribute
\* being at offset a with rtalen bytes of its envelope left
NoteRead(c, b, a, rtalen) ==
    [c EXCEPT !.pastAttr = c.pastAttr
                  \/ rta_len(b, a) < SizeofRtattr + SizeofTcpInfo
                  \/ rtalen < SizeofRtattr + SizeofTcpInfo,
              !.pastRecv = c.pastRecv
                  \/ a + SizeofRtattr + SizeofTcpInfo > c.n]

\* one iteration of the attribute loop, RTA_NEXT taking step bytes off
AttrVisited(c, step) ==
    [c EXCEPT !.nattr = c.nattr + 1,
              !.shrinks = c.shrinks /\ step >= SizeofRtattr]

\* one iteration of the envelope loop, NLMSG_NEXT taking step bytes off
EnvVisited(c, step) ==
    [c EXCEPT !.nenv = c.nenv + 1,
              !.shrinks = c.shrinks /\ step >= NLMSG_HDRLEN]

\* AttrLoop appending a sample for an attribute of any type
RECURSIVE AttrLoop_AnyType(_, _, _, _, _, _, _)
AttrLoop_AnyType(c, b, m, a, rtalen, oom, ub) ==
    IF ~RTA_OK(b, a, rtalen) THEN c
    ELSE LET step == ALIGN(rta_len(b, a))
             c1 == AppendSample(AttrVisited(c, step), b, m, a, oom, ub)
         IN  IF c1.status = "crashed" THEN c1
             ELSE AttrLoop_AnyType(c1, b, m, a + step, rtalen - step, oom, ub)

\* the while loop of parse_response, attr at offset a, rtalen bytes left
RECURSIVE AttrLoop(_, _, _, _, _, _, _)
AttrLoop(c, b, m, a, rtalen, oom, ub) ==
    IF ~RTA_OK(b, a, rtalen) THEN c
    ELSE LET step == ALIGN(rta_len(b, a))
             cv == AttrVisited(c, step)
             c1 == IF rta_type(b, a) = INET_DIAG_INFO
                   THEN AppendSample(NoteRead(cv, b, a, rtalen), b, m, a, oom, ub)
                   ELSE cv
         IN  IF c1.status = "crashed" THEN c1
             ELSE AttrLoop(c1, b, m, a + step, rtalen - step, oom, ub)

parse_response(c, b, m, rtalen, oom, ub) ==
    AttrLoop([c EXCEPT !.walks = c.walks + 1], b, m, m + SizeofInetDiagMsg,
             rtalen, oom, ub)

\* NegErrno with the embedded value stored as it is
NegErrno_Verbatim(c, e, ub) == [c EXCEPT !.status = "error", !.errno = e]

\* errno = -e->error; negating INT_MIN overflows, which is undefined: the
\* result wraps or the operation traps
NegErrno(c, e, ub) ==
    IF e = INT_MIN
    THEN IF ub = "trap" THEN [c EXCEPT !.status = "crashed"]
         ELSE [c EXCEPT !.status = "error", !.errno = e]
    ELSE [c EXCEPT !.status = "error", !.errno = -e]

\* MsgLoop with the return at NLMSG_DONE put off to the end of the datagram
RECURSIVE MsgLoop_DoneAtEnd(_, _, _, _, _, _)
MsgLoop_DoneAtEnd(c, b, h, n, oom, ub) ==
    IF ~NLMSG_OK(b, h, n) THEN c
    ELSE LET step == ALIGN(nlmsg_len(b, h))
             cv == EnvVisited(c, step)
         IN
    IF nlmsg_type(b, h) = NLMSG_ERROR
    THEN IF ULt(nlmsg_len(b, h), NLMSG_LENGTH(SizeofNlmsgerr))
         THEN [cv EXCEPT !.status = "error", !.errno = ENODATA]
         ELSE NegErrno(cv, WordAt(b, h + NLMSG_HDRLEN), ub)
    ELSE LET m == h + NLMSG_HDRLEN
             rl == SubToInt(nlmsg_len(b, h), NLMSG_LENGTH(SizeofInetDiagMsg))
             c1 == IF nlmsg_type(b, h) = NLMSG_DONE THEN [cv EXCEPT !.status = "done"]
                   ELSE IF rl > 0 THEN parse_response(cv, b, m, rl, oom, ub) ELSE cv
         IN  IF c1.status = "crashed" THEN c1
             ELSE MsgLoop_DoneAtEnd(c1, b, h + step, n - step, oom, ub)

\* the inner while loop of sockdiag_sample: envelope at offset h, n bytes
\* left.  status stays "more" when the loop ends by NLMSG_OK failing.
RECURSIVE MsgLoop(_, _, _, _, _, _)
MsgLoop(c, b, h, n, oom, ub) ==
    IF ~NLMSG_OK(b, h, n) THEN c
    ELSE LET step == ALIGN(nlmsg_len(b, h))
             cv == EnvVisited(c, step)
         IN
    IF nlmsg_type(b, h) = NLMSG_DONE THEN [cv EXCEPT !.status = "done"]
    ELSE IF nlmsg_type(b, h) = NLMSG_ERROR
    THEN IF ULt(nlmsg_len(b, h), NLMSG_LENGTH(SizeofNlmsgerr))
         THEN [cv EXCEPT !.status = "error", !.errno = ENODATA]
         ELSE NegErrno(cv, WordAt(b, h + NLMSG_HDRLEN), ub)
    ELSE LET m == h + NLMSG_HDRLEN
             rl == SubToInt(nlmsg_len(b, h), NLMSG_LENGTH(SizeofInetDiagMsg))
             c1 == IF rl > 0 THEN parse_response(cv, b, m, rl, oom, ub) ELSE cv
         IN  IF c1.status = "crashed" THEN c1
             ELSE MsgLoop(c1, b, h + step, n - step, oom, ub)

(* ------------------------------------------------------------------ *)
(* The kernel side: what a datagram holds, and its bytes.               *)
(*                                                                      *)
(* A datagram is a sequence of envelopes; an envelope names its         *)
(* declared nlmsg_len and nlmsg_type and its body: a connection-info    *)
(* record followed by attributes (body "diag"), or raw words (body      *)
(* "raw": the int of NLMSG_DONE, the struct nlmsgerr of NLMSG_ERROR).   *)
(* An attribute names its declared rta_len and rta_type and its payload *)
(* (nwords words of value fill).                                        *)
(* ------------------------------------------------------------------ *)

TcpInfoWords == SizeofTcpInfo \div 4
NLM_F_MULTI == 2

\* a 16-bit value in network byte order, as a little-endian host reads it
WireBE16(p) == (p \div 256) + 256 * (p % 256)

HdrWords(e) == <<e.nlmsg_len, Word(e.nlmsg_type, NLM_F_MULTI), 0, 0>>

DiagWords(e) ==
    (<<e.family + 256 * TCP_ESTABLISHED,
       Word(WireBE16(e.sport), WireBE16(e.dport))>>
     \o e.src \o e.dst) \o SeqOf(0, 8)

AttrWords(a) == <<Word(a.rta_len, a.rta_type)>> \o SeqOf(a.fill, a.nwords)

RECURSIVE AttrsWords(_)
AttrsWords(as) ==
    IF as = <<>> THEN <<>> ELSE AttrWords(Head(as)) \o AttrsWords(Tail(as))

EnvWords(e) ==
    HdrWords(e) \o
    (IF e.body = "diag" THEN DiagWords(e) \o AttrsWords(e.attrs) ELSE e.raw)

RECURSIVE Encode(_)
Encode(d) == IF d = <<>> THEN <<>> ELSE EnvWords(Head(d)) \o Encode(Tail(d))

\* envelopes and attributes as the kernel builds them
Attr(type, len, nwords, fill) ==
    [rta_type |-> type, rta_len |-> len, nwords |-> nwords, fill |-> fill]

InfoAttr(fill) ==
    Attr(INET_DIAG_INFO, SizeofRtattr + SizeofTcpInfo, TcpInfoWords, fill)
MemAttr == Attr(INET_DIAG_MEMINFO, SizeofRtattr + 16, 4, 7)

RECURSIVE AttrsBytes(_)
AttrsBytes(as) ==
    IF as = <<>> THEN 0 ELSE 4 * (1 + Head(as).nwords) + AttrsBytes(Tail(as))

Env(len, type, body, family, sport, dport, src, dst, attrs, raw) ==
    [nlmsg_len |-> len, nlmsg_type |-> type, body |-> body, family |-> family,
     sport |-> sport, dport |-> dport, src |-> src, dst |-> dst,
     attrs |-> attrs, raw |-> raw]

\* a connection-info envelope whose declared length is its size
InfoEnv(family, sport, dport, src, dst, attrs) ==
    Env(NLMSG_LENGTH(SizeofInetDiagMsg) + AttrsBytes(attrs), SOCK_DIAG_BY_FAMILY,
        "diag", family, sport, dport, src, dst, attrs, <<>>)

RawEnv(len, type, raw) ==
    Env(len, type, "raw", 0, 0, 0, <<>>, <<>>, <<>>, raw)

DoneEnv == RawEnv(NLMSG_LENGTH(4), NLMSG_DONE, <<0>>)

\* struct nlmsgerr: the error, then the header of the request
ErrEnv(e) ==
    RawEnv(NLMSG_LENGTH(SizeofNlmsgerr), NLMSG_ERROR,
           <<e, NLMSG_LENGTH(SizeofInetDiagReqV2), SOCK_DIAG_BY_FAMILY, 0, 0>>)

\* an error envelope cut short of struct nlmsgerr
ShortErrEnv == RawEnv(NLMSG_LENGTH(4), NLMSG_ERROR, <<-13>>)

Addr4a == <<16777343, 9, 9, 9>>
Addr4b == <<33554559, 8, 8, 8>>
Addr6a == <<288, 1, 2, 3>>
Addr6b == <<288, 4, 5, 6>>

Info4 == InfoEnv(AF_INET, 40000, 80, Addr4a, Addr4b, <<InfoAttr(11)>>)
Info6 == InfoEnv(AF_INET6, 443, 33023, Addr6a, Addr6b, <<MemAttr, InfoAttr(12)>>)

\* an attribute that claims more bytes than the envelope has left, between
\* two well-formed ones
LongAttr == Attr(INET_DIAG_INFO, SizeofRtattr + SizeofTcpInfo + 400, TcpInfoWords, 13)
\* an attribute that claims less than an attribute header
TinyAttr == Attr(INET_DIAG_INFO, 2, TcpInfoWords, 14)

InfoLong == InfoEnv(AF_INET, 1024, 22, Addr4a, Addr4b,
                    <<InfoAttr(15), LongAttr, InfoAttr(16)>>)
InfoTiny == InfoEnv(AF_INET6, 1025, 23, Addr6a, Addr6b,
                    <<TinyAttr, InfoAttr(17)>>)

\* an envelope of a family that is neither AF_INET nor AF_INET6
InfoOdd == InfoEnv(7, 258, 65535, Addr4a, Addr6b, <<InfoAttr(18)>>)

\* an envelope whose tcp_info attribute holds 8 bytes (a kernel whose
\* struct tcp_info is shorter than the one the program was built with)
ShortInfoAttr == Attr(INET_DIAG_INFO, SizeofRtattr + 8, 2, 19)
InfoShort == InfoEnv(AF_INET, 7000, 7001, Addr4a, Addr4b, <<ShortInfoAttr>>)

\* envelopes no longer than the header and the connection-info record: a
\* bare header, a header with one word, a record without attributes
HeaderOnly == RawEnv(NLMSG_HDRLEN, SOCK_DIAG_BY_FAMILY, <<>>)
ShortRaw == RawEnv(NLMSG_LENGTH(4), SOCK_DIAG_BY_FAMILY, <<0>>)
InfoBare == InfoEnv(AF_INET, 22, 50000, Addr4b, Addr4a, <<>>)

\* one envelope of k extended-TCP-info attributes
Bulk(k) == InfoEnv(AF_INET, 5000, 6000, Addr4a, Addr4b,
                   [i \in 1..k |-> InfoAttr(100 + i)])

(* ------------------------------------------------------------------ *)
(* What a datagram stands for, read off its description (not its        *)
(* bytes): the reference the parser's results are compared with.        *)
(* ------------------------------------------------------------------ *)

EnvSize(e) ==
    NLMSG_HDRLEN +
    (IF e.body = "diag" THEN SizeofInetDiagMsg + AttrsBytes(e.attrs)
     ELSE 4 * Len(e.raw))

\* the envelope declares its own size, so that the next one follows it
EnvWF(e) == e.nlmsg_len = EnvSize(e)
DgWF(d) == \A i \in 1..Len(d) : EnvWF(d[i])

IsTerminal(e) == e.nlmsg_type \in {NLMSG_DONE, NLMSG_ERROR}

\* the index of the first end-of-dump or error envelope of d, 0 if none
FirstTerminal(d) ==
    IF \E i \in 1..Len(d) : IsTerminal(d[i])
    THEN CHOOSE i \in 1..Len(d) :
             IsTerminal(d[i]) /\ \A j \in 1..(i - 1) : ~IsTerminal(d[j])
    ELSE 0

\* the envelopes of d before its first end-of-dump or error envelope
Before(d) == IF FirstTerminal(d) = 0 THEN d ELSE SubSeq(d, 1, FirstTerminal(d) - 1)

\* the first end-of-dump or error envelope of d
TermEnv(d) == d[FirstTerminal(d)]

RefEnd(d) ==
    IF FirstTerminal(d) = 0 THEN "more"
    ELSE IF d[FirstTerminal(d)].nlmsg_type = NLMSG_DONE THEN "done" ELSE "error"

AttrExact(a) == a.rta_len = SizeofRtattr + 4 * a.nwords

\* an attribute that claims less than a header, or more than the rest bytes
\* that are left of its envelope
AttrMalformed(a, rest) == a.rta_len < SizeofRtattr \/ a.rta_len > rest

\* the attributes of as, from the k-th on, before the first malformed one
RECURSIVE GoodFrom(_, _, _)
GoodFrom(as, k, rest) ==
    IF k > Len(as) \/ AttrMalformed(as[k], rest) THEN <<>>
    ELSE <<as[k]>> \o GoodFrom(as, k + 1, rest - 4 * (1 + as[k].nwords))

\* the attributes of envelope e before its first malformed one
GoodAttrs(e) == GoodFrom(e.attrs, 1, AttrsBytes(e.attrs))

\* a connection-info envelope each of whose attributes, up to the first
\* malformed one, declares its own size and, if it is an extended-TCP-info
\* attribute, holds a whole tcp_info
EnvRegular(e) ==
    /\ e.body = "diag"
    /\ ~IsTerminal(e)
    /\ EnvWF(e)
    /\ LET g == GoodAttrs(e)
       IN  \A k \in 1..Len(g) :
              /\ AttrExact(g[k])
              /\ g[k].rta_type = INET_DIAG_INFO => g[k].nwords = TcpInfoWords

DgRegular(d) ==
    /\ \A i \in 1..Len(Before(d)) : EnvRegular(d[i])
    /\ FirstTerminal(d) # 0 => EnvWF(d[FirstTerminal(d)])

\* the sample that attribute a of envelope e stands for
RefSample(e, a) ==
    [family |-> e.family,
     saddr  |-> IF e.family = AF_INET THEN <<e.src[1], 0, 0, 0>> ELSE e.src,
     sport  |-> e.sport,
     daddr  |-> IF e.family = AF_INET THEN <<e.dst[1], 0, 0, 0>> ELSE e.dst,
     dport  |-> e.dport,
     info   |-> SeqOf(a.fill, TcpInfoWords)]

\* the extended-TCP-info attributes of e before its first malformed one
InfoAttrs(e) == SelectSeq(GoodAttrs(e), LAMBDA a : a.rta_type = INET_DIAG_INFO)

EnvRefSamples(e) ==
    LET ia == InfoAttrs(e) IN [k \in 1..Len(ia) |-> RefSample(e, ia[k])]

RECURSIVE ConcatRef(_)
ConcatRef(d) ==
    IF d = <<>> THEN <<>> ELSE EnvRefSamples(Head(d)) \o ConcatRef(Tail(d))

\* the samples a regular datagram stands for, in wire order
RefSamples(d) == IF DgRegular(d) THEN ConcatRef(Before(d)) ELSE <<>>

\* a well-formed envelope that carries exactly one extended-TCP-info attribute
EnvSimple(e) ==
    /\ EnvRegular(e)
    /\ Len(GoodAttrs(e)) = Len(e.attrs)
    /\ Len(InfoAttrs(e)) = 1

DgSimple(d) == DgRegular(d) /\ \A i \in 1..Len(Before(d)) : EnvSimple(d[i])

(* ------------------------------------------------------------------ *)
(* The responses the kernel gives to one request, datagram by datagram. *)
(* ------------------------------------------------------------------ *)

StreamTwoInfo == << <<Info4>>, <<Info6, DoneEnv, Info6>> >>
StreamErr == << <<Info4, ErrEnv(-16), Info6>>, <<Info6, DoneEnv>> >>
StreamErrMin == << <<ErrEnv(INT_MIN)>> >>
StreamShortErr == << <<ShortErrEnv, Info4>> >>
StreamMalformed == << <<InfoLong, Info4>>, <<InfoTiny>>, <<InfoOdd>> >>
StreamBulk == << <<Bulk(INIT_CAP)>>, <<Bulk(INIT_CAP), Info4>>, <<DoneEnv>> >>
StreamShort == << <<HeaderOnly, ShortRaw, InfoBare, Info4>>, <<InfoShort, DoneEnv>> >>

Streams == {StreamTwoInfo, StreamErr, StreamErrMin, StreamShortErr,
            StreamMalformed, StreamBulk, StreamShort}

\* datagrams that hold no well-formed envelope: an empty one, a header
\* that claims less than a header, a header that claims more than arrived
Noise == { <<>>,
           <<RawEnv(8, SOCK_DIAG_BY_FAMILY, <<>>)>>,
           <<RawEnv(400, SOCK_DIAG_BY_FAMILY, <<>>)>> }

\* what the bytes of the receive buffer beyond the received length may hold
FillWords == {0, 99}

\* what an undefined operation (a write through NULL, the negation of
\* INT_MIN) does in a step: it traps, or it goes on
UBOutcomes == {"trap", "go"}

(* ------------------------------------------------------------------ *)
(* The state.                                                           *)
(*   pc      where the caller and the current call stand                *)
(*   c       the context (see above); c.req is the current call         *)
(*   queue   the socket's receive queue: datagrams, each with the       *)
(*           request it answers                                         *)
(*   quiet   the kernel will queue nothing more for the current call    *)
(*   rx      what the call has received: whether anything (any), the    *)
(*           last datagram (dg) and len and cap before it, and of all   *)
(*           its datagrams: how many samples they stand for (nref),     *)
(*           whether each was regular, whether each was simple (see     *)
(*           below);                                                    *)
(*           len0 is the len the call found in the caller's struct      *)
(*   bad     a pointer that was not allocated, or already freed, was    *)
(*           passed to free                                             *)
(*   sock    the netlink socket: the caller's handle (fd: what          *)
(*           sockdiag_open returned, -1 when it failed and after        *)
(*           sockdiag_close), the descriptors open in the process       *)
(*           (fds), the receive timeout in seconds set on the socket    *)
(*           (rcvtimeo, 0 for none), and how the last sockdiag_open or  *)
(*           sockdiag_close went (why)                                  *)
(* ------------------------------------------------------------------ *)
VARIABLES pc, c, queue, quiet, rx, bad, sock

vars == <<pc, c, queue, quiet, rx, bad, sock>>

\* the descriptors socket() may return
Descriptors == {3}

\* t.tv_sec = 1
RcvTimeoSec == 1

NoRx == [any |-> FALSE, dg |-> [req |-> 0, envs |-> <<>>], len |-> 0, cap |-> 0,
         nref |-> 0, regular |-> TRUE, simple |-> TRUE, len0 |-> 0]

Init ==
    /\ pc = "Idle"
    /\ c = [sample |-> NULL, len |-> 0, cap |-> 0, mem |-> <<>>,
            live |-> {}, status |-> "more", errno |-> 0,
            req |-> 0, from |-> 0, family |-> 0, sent |-> <<>>,
            n |-> 0, pastAttr |-> FALSE, pastRecv |-> FALSE,
            nenv |-> 0, nattr |-> 0, walks |-> 0, shrinks |-> TRUE,
            log |-> <<>>, allocFailed |-> FALSE, wild |-> FALSE,
            oob |-> FALSE, grows |-> <<>>]
    /\ queue = <<>>
    /\ quiet = FALSE
    /\ rx = NoRx
    /\ bad = FALSE
    /\ sock = [fd |-> -1, fds |-> {}, rcvtimeo |-> 0, why |-> "none"]

\* sockdiag_open without the close(fd) at sockopt_failure
sockdiag_open_NoClose(fd, sockoptOk) ==
    /\ pc = "Idle"
    /\ sock.fd = -1
    /\ sock' = IF fd = -1
               THEN [sock EXCEPT !.why = "socket"]
               ELSE IF ~sockoptOk
               THEN [sock EXCEPT !.fds = sock.fds \cup {fd}, !.why = "sockopt"]
               ELSE [fd |-> fd, fds |-> sock.fds \cup {fd},
                     rcvtimeo |-> RcvTimeoSec, why |-> "ok"]
    /\ UNCHANGED <<pc, c, queue, quiet, rx, bad>>

\* sockdiag_open: socket() returns fd (-1 when it fails), then setsockopt
\* succeeds or not
sockdiag_open(fd, sockoptOk) ==
    /\ pc = "Idle"
    /\ sock.fd = -1
    /\ sock' = IF fd = -1
               THEN [sock EXCEPT !.why = "socket"]
               ELSE IF ~sockoptOk
               THEN [sock EXCEPT !.fds = (sock.fds \cup {fd}) \ {fd},
                                 !.why = "sockopt"]
               ELSE [fd |-> fd, fds |-> sock.fds \cup {fd},
                     rcvtimeo |-> RcvTimeoSec, why |-> "ok"]
    /\ UNCHANGED <<pc, c, queue, quiet, rx, bad>>

\* sockdiag_close: close(fd), between calls
sockdiag_close ==
    /\ pc = "Idle"
    /\ sock.fd # -1
    /\ sock' = [fd |-> -1, fds |-> sock.fds \ {sock.fd}, rcvtimeo |-> 0,
                why |-> "closed"]
    /\ UNCHANGED <<pc, c, queue, quiet, rx, bad>>

\* send_request with the NLM_F_DUMP flag left out
send_request_NoDump(family) ==
    [nlmsg_len |-> NLMSG_LENGTH(SizeofInetDiagReqV2),
     nlmsg_type |-> SOCK_DIAG_BY_FAMILY,
     nlmsg_flags |-> NLM_F_REQUEST,
     nlmsg_seq |-> 0, nlmsg_pid |-> 0,
     sdiag_family |-> family, sdiag_protocol |-> IPPROTO_TCP,
     idiag_ext |-> Pow2(INET_DIAG_INFO - 1),
     idiag_states |-> Pow2(TCP_ESTABLISHED)]

\* send_request: the one message (header and inet_diag_req_v2) it hands to
\* sendmsg; every field it does not set is 0
send_request(family) ==
    [nlmsg_len |-> NLMSG_LENGTH(SizeofInetDiagReqV2),
     nlmsg_type |-> SOCK_DIAG_BY_FAMILY,
     nlmsg_flags |-> NLM_F_DUMP + NLM_F_REQUEST,
     nlmsg_seq |-> 0, nlmsg_pid |-> 0,
     sdiag_family |-> family, sdiag_protocol |-> IPPROTO_TCP,
     idiag_ext |-> Pow2(INET_DIAG_INFO - 1),
     idiag_states |-> Pow2(TCP_ESTABLISHED)]

\* the families a caller asks for
Families == {AF_INET, AF_INET6}

\* the history of a call, cleared when the next call starts, and the
\* call's first statement: send_request(fd, family)
NewCall(cc, family) ==
    [cc EXCEPT !.req = cc.req + 1, !.status = "more", !.errno = 0,
               !.log = <<>>, !.from = 0,
               !.family = family, !.sent = <<send_request(family)>>,
               !.n = 0, !.pastAttr = FALSE, !.pastRecv = FALSE,
               !.nenv = 0, !.nattr = 0, !.walks = 0, !.shrinks = TRUE,
               !.allocFailed = FALSE, !.wild = FALSE, !.oob = FALSE,
               !.grows = <<>>]

Tagged(stream, req) == [i \in 1..Len(stream) |-> [req |-> req, envs |-> stream[i]]]

\* send_request returns >= 0: the kernel has taken the request and queues
\* its response
SendOk(family, stream) ==
    /\ pc = "Idle"
    /\ sock.fd # -1
    /\ c.req < MaxCalls
    /\ pc' = "RequestSent"
    /\ c' = NewCall(c, family)
    /\ queue' = queue \o Tagged(stream, c.req + 1)
    /\ quiet' = FALSE
    /\ rx' = [NoRx EXCEPT !.len0 = c.len]
    /\ UNCHANGED <<bad, sock>>

\* SendFail with the call going on to reset the Store and receive
SendFail_GoesOn(family) ==
    /\ pc = "Idle"
    /\ sock.fd # -1
    /\ c.req < MaxCalls
    /\ pc' = "RequestSent"
    /\ c' = [NewCall(c, family) EXCEPT !.status = "sendfail",
                                       !.errno = ECONNREFUSED]
    /\ quiet' = FALSE
    /\ rx' = [NoRx EXCEPT !.len0 = c.len]
    /\ UNCHANGED <<queue, bad, sock>>

\* send_request returns < 0: sockdiag_sample returns -1
SendFail(family) ==
    /\ pc = "Idle"
    /\ sock.fd # -1
    /\ c.req < MaxCalls
    /\ pc' = "Failed"
    /\ c' = [NewCall(c, family) EXCEPT !.status = "sendfail",
                                       !.errno = ECONNREFUSED]
    /\ quiet' = FALSE
    /\ rx' = [NoRx EXCEPT !.len0 = c.len]
    /\ UNCHANGED <<queue, bad, sock>>

\* ResetStore without the assignment of {0}: grow on the struct as found
ResetStore_NoReset(oom) ==
    /\ pc = "RequestSent"
    /\ pc' = "Draining"
    /\ c' = grow(c, oom)
    /\ UNCHANGED <<queue, quiet, rx, bad, sock>>

\* *samples = (const struct samples){0}; grow(samples);
ResetStore(oom) ==
    /\ pc = "RequestSent"
    /\ pc' = "Draining"
    /\ c' = grow([c EXCEPT !.sample = NULL, !.len = 0, !.cap = 0, !.mem = <<>>], oom)
    /\ UNCHANGED <<queue, quiet, rx, bad, sock>>

PcOf(status) ==
    CASE status = "more" -> "Draining"
      [] status = "done" -> "Done"
      [] status = "crashed" -> "Crashed"
      [] OTHER -> "Failed"

\* recv returns a datagram of n bytes, and the inner loop parses it
RecvDatagram(oom, ub, fill) ==
    /\ pc = "Draining"
    /\ queue # <<>>
    /\ LET d == Head(queue)
           w == Encode(d.envs)
           b == w \o SeqOf(fill, TcpInfoWords)
           n == 4 * Len(w)
           c1 == MsgLoop([c EXCEPT !.from = d.req, !.n = n, !.nenv = 0, !.nattr = 0,
                               !.walks = 0],
                      b, 0, n, oom, ub)
       IN  /\ c' = c1
           /\ pc' = PcOf(c1.status)
           /\ rx' = [rx EXCEPT !.any = TRUE, !.dg = d, !.len = c.len,
                               !.cap = c.cap,
                               !.nref = rx.nref + Len(RefSamples(d.envs)),
                               !.regular = rx.regular /\ DgRegular(d.envs),
                               !.simple = rx.simple /\ DgSimple(d.envs)]
    /\ queue' = Tail(queue)
    /\ UNCHANGED <<quiet, bad, sock>>

\* RecvFail with the loop going round again instead of returning -1 (each
\* retry shows in errno, which the next one clears)
RecvFail_Retry(e) ==
    /\ pc = "Draining"
    /\ e = EAGAIN => queue = <<>>
    /\ pc' = "Draining"
    /\ c' = [c EXCEPT !.errno = IF c.errno = e THEN 0 ELSE e]
    /\ UNCHANGED <<queue, quiet, rx, bad, sock>>

\* RecvFail with the Store released before the return
RecvFail_Frees(e) ==
    /\ pc = "Draining"
    /\ e = EAGAIN => queue = <<>>
    /\ pc' = "Failed"
    /\ c' = [c EXCEPT !.status = "recvfail", !.errno = e,
                      !.live = c.live \ {c.sample},
                      !.mem = SeqOf(Junk, Len(c.mem))]
    /\ UNCHANGED <<queue, quiet, rx, bad, sock>>

\* recv returns -1: it timed out (nothing was queued), or was interrupted
RecvFail(e) ==
    /\ pc = "Draining"
    /\ e = EAGAIN => queue = <<>>
    /\ pc' = "Failed"
    /\ c' = [c EXCEPT !.status = "recvfail", !.errno = e]
    /\ UNCHANGED <<queue, quiet, rx, bad, sock>>

\* the kernel queues one more datagram for the call being drained
KernelDeliver(d) ==
    /\ pc = "Draining"
    /\ ~quiet
    /\ queue = <<>>
    /\ queue' = <<[req |-> c.req, envs |-> d]>>
    /\ UNCHANGED <<pc, c, quiet, rx, bad, sock>>

\* the kernel has nothing more to send for this call
KernelQuiesce ==
    /\ pc = "Draining"
    /\ ~quiet
    /\ queue = <<>>
    /\ quiet' = TRUE
    /\ UNCHANGED <<pc, c, queue, rx, bad, sock>>

\* what is left of a call once the caller has taken its result: the struct
\* and the heap; the call's history and its result are forgotten
Forget(cc) ==
    [cc EXCEPT !.status = "more", !.errno = 0, !.from = 0, !.family = 0,
               !.sent = <<>>, !.log = <<>>, !.allocFailed = FALSE,
               !.n = 0, !.pastAttr = FALSE, !.pastRecv = FALSE,
               !.nenv = 0, !.nattr = 0, !.walks = 0, !.shrinks = TRUE,
               !.wild = FALSE, !.oob = FALSE, !.grows = <<>>]

\* the caller, after a call has returned: sockdiag_free_samples, which is
\* free(samples->sample) and leaves the struct as it is
sockdiag_free_samples ==
    /\ pc \in {"Done", "Failed"}
    /\ pc' = "Idle"
    /\ IF c.sample = NULL
       THEN /\ c' = Forget(c)
            /\ UNCHANGED <<bad, sock>>
       ELSE IF c.sample \in c.live
       THEN /\ c' = Forget([c EXCEPT !.live = c.live \ {c.sample},
                                     !.mem = SeqOf(Junk, Len(c.mem))])
            /\ UNCHANGED <<bad, sock>>
       ELSE /\ bad' = TRUE
            /\ c' = Forget(c)
    /\ rx' = NoRx
    /\ UNCHANGED <<queue, quiet, sock>>

Next ==
    \/ \E family \in Families, stream \in Streams : SendOk(family, stream)
    \/ \E family \in Families : SendFail(family)
    \/ \E oom \in BOOLEAN : ResetStore(oom)
    \/ \E oom \in BOOLEAN, ub \in UBOutcomes, fill \in FillWords :
          RecvDatagram(oom, ub, fill)
    \/ \E e \in {EAGAIN, EINTR} : RecvFail(e)
    \/ \E d \in Noise : KernelDeliver(d)
    \/ KernelQuiesce
    \/ sockdiag_free_samples
    \/ \E fd \in {-1} \cup Descriptors, sockoptOk \in BOOLEAN :
          sockdiag_open(fd, sockoptOk)
    \/ sockdiag_close

Spec == Init /\ [][Next]_vars

\* one turn of the while (1) loop: recv returns, with a datagram or with -1
Receive ==
    \/ \E e \in {EINTR, EAGAIN} : RecvFail(e)
    \/ \E oom \in BOOLEAN, ub \in UBOutcomes, fill \in FillWords :
          RecvDatagram(oom, ub, fill)

\* The call itself runs on: after the send it resets the Store, and every
\* recv returns (SO_RCVTIMEO bounds the wait for a datagram).  Nothing is
\* assumed of the kernel or of the caller.
FairSpec ==
    /\ Spec
    /\ WF_vars(\E oom \in BOOLEAN : ResetStore(oom))
    /\ WF_vars(Receive)

(* ================================================================== *)
(* Properties.                                                          *)
(* ================================================================== *)

InCall == pc \in {"Draining", "Done", "Failed"} /\ c.status # "sendfail"

(* C1: the first end-of-dump envelope ends the call with success: the    *)
(* call returns on the datagram that holds it, parses no envelope after  *)
(* it and receives nothing more; a call that has received only simple    *)
(* info envelopes (one extended-TCP-info attribute each) and end-of-dump *)
(* returns a Store whose length is the number of those info envelopes.   *)
C1_DoneEndsCall ==
    /\ pc = "Done" =>
          /\ rx.any /\ c.status = "done"
          /\ DgWF(rx.dg.envs) => RefEnd(rx.dg.envs) = "done"
          /\ rx.simple => c.len = rx.nref
    /\ (pc = "Draining" /\ rx.any /\ DgWF(rx.dg.envs)) => RefEnd(rx.dg.envs) = "more"

\* two info envelopes, then end-of-dump followed by one more envelope
C1_Witness ==
    /\ pc = "Done"
    /\ rx.simple
    /\ c.len = 2
    /\ FirstTerminal(rx.dg.envs) < Len(rx.dg.envs)
    /\ ~c.allocFailed

(* C2, as claimed: an error envelope that holds a whole struct nlmsgerr  *)
(* makes the call fail with the embedded error value itself as the code  *)
(* reported.                                                             *)
C2_ReportsEmbeddedCode ==
    (/\ c.status = "error"
     /\ DgWF(rx.dg.envs)
     /\ TermEnv(rx.dg.envs).nlmsg_len >= NLMSG_LENGTH(SizeofNlmsgerr))
    => c.errno = TermEnv(rx.dg.envs).raw[1]

(* C2, amended: an error envelope met while draining makes the call fail *)
(* on the datagram that holds it, with no envelope after it parsed and   *)
(* nothing more received; the code reported is ENODATA when the envelope *)
(* is shorter than a struct nlmsgerr, and otherwise the negation of the  *)
(* embedded value; negating INT_MIN is undefined, and a call that comes  *)
(* back from it reports INT_MIN.                                         *)
C2_ReportsNegatedCode ==
    /\ c.status = "error" =>
          /\ pc \in {"Failed", "Idle"} /\ rx.any
          /\ rx.simple => c.len = rx.nref
          /\ DgWF(rx.dg.envs) =>
                /\ RefEnd(rx.dg.envs) = "error"
                /\ LET e == TermEnv(rx.dg.envs)
                   IN  IF e.nlmsg_len < NLMSG_LENGTH(SizeofNlmsgerr)
                       THEN c.errno = ENODATA
                       ELSE c.errno = IF e.raw[1] = INT_MIN THEN INT_MIN
                                                            ELSE -e.raw[1]
    /\ (pc \in {"Draining", "Done"} /\ rx.any /\ DgWF(rx.dg.envs))
          => RefEnd(rx.dg.envs) # "error"

\* the kernel's -EBUSY, in an envelope followed by another one
C2_Witness ==
    /\ pc = "Failed"
    /\ c.status = "error"
    /\ TermEnv(rx.dg.envs).raw[1] = -16
    /\ c.errno = 16
    /\ FirstTerminal(rx.dg.envs) < Len(rx.dg.envs)

\* (reached too: the short error envelope, reported as ENODATA)
C2_WitnessShort ==
    /\ c.status = "error"
    /\ TermEnv(rx.dg.envs).nlmsg_len < NLMSG_LENGTH(SizeofNlmsgerr)
    /\ c.errno = ENODATA

(* C3: every sample a call has written was decoded from a response to   *)
(* the call's own request, whatever the calls before it left queued.    *)
C3_OwnResponsesOnly ==
    \A i \in 1..Len(c.log) : c.log[i].req = c.req

(* C4: a call whose request was sent starts from an empty Store: at its *)
(* first receive the length is 0 and no slot holds anything, whatever   *)
(* the struct held before; from then on the length counts the samples   *)
(* this call has written, and (while no allocation has failed) every    *)
(* slot below the length holds a sample written by this call.           *)
C4_StartsEmpty ==
    /\ (pc = "Draining" /\ ~rx.any) =>
          /\ c.len = 0
          /\ c.mem = <<>>
          /\ c.log = <<>>
    /\ InCall =>
          /\ c.len = Len(c.log)
          /\ ~c.allocFailed =>
                \A i \in 1..c.len : c.mem[i] = c.log[i].s

\* the second call, at its first receive, after a call that left 33 samples
C4_Witness ==
    /\ c.req = 2
    /\ pc = "Draining"
    /\ ~rx.any
    /\ rx.len0 = 2 * INIT_CAP + 1
    /\ c.len = 0
    /\ queue # <<>>

(* C5: within a call the length equals the number of samples appended,  *)
(* and the slot at every index below it holds the sample appended at    *)
(* that position, whatever was appended or grown after it.              *)
C5_AppendsRetrievable ==
    InCall =>
        /\ c.len = Len(c.log)
        /\ Len(c.mem) >= c.len
        /\ \A i \in 1..c.len : c.mem[i] = c.log[i].s

(* C7: a failed allocation aborts the call: no sample is ever written   *)
(* through the pointer realloc returned NULL for, and a call in which   *)
(* an allocation failed neither goes on receiving nor returns success.  *)
C7_AllocFailureAborts ==
    /\ ~c.wild
    /\ c.allocFailed => pc \notin {"Draining", "Done"}

\* the capacity is INIT_CAP doubled once per growth after the first, and
\* each growth after the first found len equal to the capacity of the time
CapacityDiscipline ==
    InCall =>
        /\ Len(c.grows) >= 1
        /\ c.cap = INIT_CAP * Pow2(Len(c.grows) - 1)
        /\ c.grows[1] = 0
        /\ \A k \in 2..Len(c.grows) : c.grows[k] = INIT_CAP * Pow2(k - 2)
        /\ c.len <= c.cap

(* C6: within a call the capacity is 16 at first and only doubles,      *)
(* growth happens only when an append finds the length equal to the     *)
(* capacity, the length never exceeds the capacity, and every write     *)
(* lands in a slot inside the backing storage.                          *)
C6_CapacityAndWrites ==
    /\ CapacityDiscipline
    /\ ~c.oob
    /\ ~c.wild

\* datagram d has, before its end, an envelope with a malformed attribute
HasMalformed(d) ==
    \E i \in 1..Len(Before(d)) : Len(GoodAttrs(d[i])) < Len(d[i].attrs)

\* the step is the receipt and parsing of the datagram at the head of the queue
Received == pc = "Draining" /\ queue # <<>> /\ queue' = Tail(queue)

\* what the last datagram received has done to the Store, if nothing trapped
C8_StopsAtMalformed ==
    (/\ rx.any /\ c.status # "crashed"
     /\ DgRegular(rx.dg.envs) /\ HasMalformed(rx.dg.envs))
    => LET ref == RefSamples(rx.dg.envs)
       IN  /\ c.len = rx.len + Len(ref)
           /\ Len(c.log) = c.len
           /\ \A k \in 1..Len(ref) : c.log[rx.len + k].s = ref[k]
           /\ (pc \in {"Draining", "Done", "Failed"} /\ ~c.allocFailed) =>
                 \A k \in 1..Len(ref) : c.mem[rx.len + k] = ref[k]
           /\ c.status \in {RefEnd(rx.dg.envs), "recvfail"}
           /\ RefEnd(rx.dg.envs) = "more" => pc \in {"Draining", "Failed", "Idle"}
           /\ c.status = "more" => pc = "Draining"

\* a datagram with a malformed attribute leaves the samples before it alone
C8_EarlierUnchanged ==
    (/\ Received /\ HasMalformed(Head(queue).envs)
     /\ c'.status # "crashed" /\ ~c'.allocFailed)
    => /\ SubSeq(c'.mem, 1, c.len) = SubSeq(c.mem, 1, c.len)
       /\ SubSeq(c'.log, 1, c.len) = c.log

(* C8: an attribute that claims more bytes than its envelope has left,  *)
(* or fewer than an attribute header, ends the walk of that envelope:   *)
(* the samples the datagram adds are those of the attributes before the *)
(* malformed one and of the envelopes after that envelope, the samples  *)
(* appended before are unchanged, the call does not fail on it and goes *)
(* on to the next envelope and the next datagram.                       *)
C8_MalformedAttribute ==
    /\ []C8_StopsAtMalformed
    /\ [][C8_EarlierUnchanged]_vars

\* after <<InfoLong, Info4>> gave two samples, <<InfoTiny>> has given none
C8_Witness ==
    /\ pc = "Draining"
    /\ rx.any
    /\ rx.dg.envs = <<InfoTiny>>
    /\ rx.len = 2
    /\ c.len = 2
    /\ ~c.allocFailed
    /\ c.mem[1] = RefSample(InfoLong, InfoAttr(15))
    /\ c.mem[2] = RefSample(Info4, InfoAttr(11))

(* C9: a datagram whose envelopes before its end are one connection-    *)
(* info envelope with one extended-TCP-info attribute appends exactly   *)
(* one sample: the envelope's family and tcp_info, its ports in host    *)
(* order, and its addresses: the first 4 bytes followed by zeros for    *)
(* AF_INET, all 16 bytes for any other family.                          *)
C9_OneSampleFields ==
    (/\ rx.any /\ c.status # "crashed"
     /\ DgSimple(rx.dg.envs) /\ Len(Before(rx.dg.envs)) = 1)
    => LET e == rx.dg.envs[1]
           s == RefSample(e, InfoAttrs(e)[1])
       IN  /\ c.len = rx.len + 1
           /\ Len(c.log) = c.len
           /\ c.log[c.len].s = s
           /\ (pc \in {"Draining", "Done", "Failed"} /\ ~c.allocFailed) =>
                 c.mem[c.len] = s

\* the IPv4 envelope 40000 -> 80, whose address words 2..4 were not zero
C9_Witness ==
    /\ pc = "Draining"
    /\ rx.any
    /\ rx.dg.envs = <<Info4>>
    /\ ~c.allocFailed
    /\ c.len = 1
    /\ c.mem[1].family = AF_INET
    /\ c.mem[1].sport = 40000
    /\ c.mem[1].dport = 80
    /\ c.mem[1].saddr = <<Addr4a[1], 0, 0, 0>>
    /\ c.mem[1].daddr = <<Addr4b[1], 0, 0, 0>>
    /\ c.mem[1].info = SeqOf(11, TcpInfoWords)
    /\ Addr4a[2] # 0

\* (reached too: a family that is neither AF_INET nor AF_INET6)
C9_WitnessOdd ==
    /\ pc = "Draining"
    /\ rx.dg.envs = <<InfoOdd>>
    /\ ~c.allocFailed
    /\ c.mem[c.len].saddr = Addr4a
    /\ c.mem[c.len].daddr = Addr6b
    /\ c.mem[c.len].sport = 258
    /\ c.mem[c.len].dport = 65535

\* the call is over: it has returned, or an undefined operation has
\* killed the process
Over == pc \in {"Done", "Failed", "Crashed"}

(* C10, as claimed: every call eventually returns, given only that each *)
(* recv returns, whatever the kernel sends.  (Stated here with a call   *)
(* that ends in a trap counted as over, so that what refutes it is the  *)
(* kernel's datagrams alone.)                                           *)
C10_AlwaysReturns == (pc = "Draining") ~> Over

(* C10, amended: once the kernel queues nothing more for the call, the  *)
(* call is over after finitely many receives: it returns at an end of   *)
(* dump or error envelope still queued, or the receive that finds the   *)
(* queue empty times out and fails it.                                  *)
C10_ReturnsOnceQuiet == (pc = "Draining" /\ quiet) ~> Over

\* a dump that never ended, failed by the timeout after its last datagram
C10_Witness ==
    /\ pc = "Failed"
    /\ quiet
    /\ c.status = "recvfail"
    /\ c.errno = EAGAIN
    /\ rx.any
    /\ RefEnd(rx.dg.envs) = "more"
    /\ queue = <<>>

\* sendmsg or recv has returned -1 in this call: errno holds what it left
TransportFailed ==
    c.status # "error" /\ c.errno \in {ECONNREFUSED, EAGAIN, EINTR}

\* a call failed in the transport has returned ...
C11_FailedAtOnce == TransportFailed => pc \in {"Failed", "Idle"}

\* ... and the only step after it is the caller's, which sends nothing and
\* receives nothing
C11_NothingAfter ==
    (TransportFailed /\ pc = "Failed")
    => /\ pc' = "Idle"
       /\ queue' = queue
       /\ c'.req = c.req
       /\ c'.len = c.len

(* C11: a failed send or a failed receive (a timeout included) makes    *)
(* the call return failure at once: the call makes no further send and  *)
(* no further receive, nothing is retried.                              *)
C11_NoInternalRetry ==
    /\ []C11_FailedAtOnce
    /\ [][C11_NothingAfter]_vars

\* a receive timed out after three samples, the kernel not yet silent
C11_Witness ==
    /\ pc = "Failed"
    /\ c.status = "recvfail"
    /\ c.errno = EAGAIN
    /\ ~quiet
    /\ c.len = 3

\* the steps of one call, and the caller's step back to Idle (where it may
\* open and close the socket); a trap of an undefined operation (C7) ends
\* the process while draining
CallSteps ==
    { <<"Idle", "Idle">>, <<"Idle", "RequestSent">>, <<"Idle", "Failed">>,
      <<"RequestSent", "Draining">>,
      <<"Draining", "Draining">>, <<"Draining", "Done">>,
      <<"Draining", "Failed">>, <<"Draining", "Crashed">>,
      <<"Done", "Idle">>, <<"Failed", "Idle">> }

\* a call under way or returned has handed sendmsg one message: the dump
\* request for TCP sockets of its family, established only, with tcp_info
C12_OneRequest ==
    pc \in {"RequestSent", "Draining", "Done", "Failed", "Crashed"} =>
        /\ Len(c.sent) = 1
        /\ c.sent[1].sdiag_family = c.family
        /\ c.sent[1].sdiag_protocol = IPPROTO_TCP
        /\ c.sent[1].idiag_states = 2
        /\ c.sent[1].idiag_ext = 2
        /\ c.sent[1].nlmsg_flags = NLM_F_DUMP + NLM_F_REQUEST
        /\ c.sent[1].nlmsg_type = SOCK_DIAG_BY_FAMILY
        /\ c.sent[1].nlmsg_len = NLMSG_HDRLEN + SizeofInetDiagReqV2

\* every step is one of the machine's; a message is sent only on leaving
\* Idle, a datagram is taken off the queue only in Draining, and nothing
\* is sent or received once the call is Done or Failed
C12_Order ==
    /\ <<pc, pc'>> \in CallSteps
    /\ c'.req # c.req => (pc = "Idle" /\ c'.req = c.req + 1)
    /\ (queue # <<>> /\ queue' = Tail(queue)) => pc = "Draining"
    /\ pc \in {"Done", "Failed"} => (queue' = queue /\ c'.req = c.req)
    /\ (pc = "RequestSent" /\ ~rx.any) => ~rx'.any
    /\ (pc = "Idle" /\ pc' = "Idle") => (c' = c /\ queue' = queue)

(* C12: a call goes Idle -> RequestSent -> Draining -> Done | Failed    *)
(* (or straight to Failed when the send fails); it hands sendmsg one    *)
(* dump request (its family, TCP, established only, tcp_info, dump and  *)
(* request flags), before any receive; it receives only in Draining;    *)
(* once Done or Failed it sends and receives nothing more.              *)
C12_CallStateMachine ==
    /\ []C12_OneRequest
    /\ [][C12_Order]_vars

\* the second call of a session, for IPv6, done after two datagrams
C12_Witness ==
    /\ pc = "Done"
    /\ c.req = 2
    /\ c.family = AF_INET6
    /\ c.sent = <<send_request(AF_INET6)>>
    /\ rx.any
    /\ c.len = 2

\* the caller's struct holds nothing: no length, no capacity, no pointer
StoreEmpty == c.len = 0 /\ c.cap = 0 /\ c.sample = NULL

(* C13: the Store is reset before the request is sent: when the request *)
(* has just been sent, and when the call has returned because the send  *)
(* failed, the caller's struct holds no length, capacity or pointer     *)
(* from before the call.                                                *)
C13_ResetBeforeSend ==
    /\ pc = "RequestSent" => StoreEmpty
    /\ (pc = "Failed" /\ c.status = "sendfail") => StoreEmpty

\* what the last datagram received, if regular, has added to the Store:
\* the samples it stands for, in wire order, after those that were there
C14_DatagramInOrder ==
    (rx.any /\ c.status # "crashed" /\ DgRegular(rx.dg.envs))
    => LET ref == RefSamples(rx.dg.envs)
       IN  /\ c.len = rx.len + Len(ref)
           /\ Len(c.log) = c.len
           /\ \A k \in 1..Len(ref) : c.log[rx.len + k].s = ref[k]
           /\ (pc \in {"Draining", "Done", "Failed"} /\ ~c.allocFailed) =>
                 \A i \in 1..c.len : c.mem[i] = c.log[i].s

\* a datagram is parsed whole in the step that receives it, and what was
\* appended before it stays in place before what it appends
C14_AppendsAfter ==
    (Received /\ c'.status # "crashed")
    => /\ SubSeq(c'.log, 1, c.len) = c.log
       /\ c'.len >= c.len
       /\ rx'.len = c.len
       /\ rx'.dg = Head(queue)

(* C14: the envelopes of a datagram are all parsed before the next      *)
(* receive and the Store's order is wire order: each datagram appends,  *)
(* after the samples of the datagrams before it, one sample per         *)
(* extended-TCP-info attribute, by envelope and by attribute within the *)
(* envelope; attributes of other types add nothing and fail nothing.    *)
C14_WireOrder ==
    /\ []C14_DatagramInOrder
    /\ [][C14_AppendsAfter]_vars

\* datagrams of 16 and of 16 + 1 attributes, then an end of dump: 33
\* samples, the 17th..32nd from the second datagram's first envelope
C14_Witness ==
    /\ pc = "Done"
    /\ ~c.allocFailed
    /\ c.len = 2 * INIT_CAP + 1
    /\ \A i \in 1..INIT_CAP :
          /\ c.mem[i].info[1] = 100 + i
          /\ c.mem[INIT_CAP + i].info[1] = 100 + i
    /\ c.mem[2 * INIT_CAP + 1] = RefSample(Info4, InfoAttr(11))

\* (reached too: an attribute of another type before the tcp_info one)
C14_WitnessOtherType ==
    /\ pc = "Done"
    /\ rx.dg.envs = <<Info6, DoneEnv, Info6>>
    /\ Info6.attrs[1].rta_type = INET_DIAG_MEMINFO
    /\ c.len = 2
    /\ ~c.allocFailed
    /\ c.mem[2] = RefSample(Info6, InfoAttr(12))

\* the call has failed after draining began
FailedDraining == pc = "Failed" /\ c.status \in {"recvfail", "error"}

\* the Store of a call that failed while draining holds what the call has
\* appended, in storage that is still allocated
C15_StoreKept ==
    FailedDraining =>
        /\ c.len = Len(c.log)
        /\ c.len <= c.cap
        /\ ~c.allocFailed =>
              /\ c.sample # NULL /\ c.sample \in c.live
              /\ \A i \in 1..c.len : c.mem[i] = c.log[i].s

\* a failing receive changes nothing of the Store, and no step of a call
\* frees storage
C15_FailureFrame ==
    /\ (pc = "Draining" /\ c'.status = "recvfail") =>
          /\ c'.len = c.len /\ c'.cap = c.cap /\ c'.sample = c.sample
          /\ c'.mem = c.mem /\ c'.live = c.live /\ c'.log = c.log
    /\ pc \in {"RequestSent", "Draining"} => c.live \subseteq c'.live

(* C15: a call that fails after draining has begun (receive error,      *)
(* timeout, error envelope) leaves the Store as it was at the failure:  *)
(* samples, length, capacity and storage unchanged, the storage not     *)
(* freed; releasing it is the caller's.                                 *)
C15_FailureLeavesStore ==
    /\ []C15_StoreKept
    /\ [][C15_FailureFrame]_vars

\* an error envelope after one sample: the sample is there, in live storage
C15_Witness ==
    /\ pc = "Failed"
    /\ c.status = "error"
    /\ c.len = 1
    /\ c.cap = INIT_CAP
    /\ c.sample \in c.live
    /\ c.mem[1] = RefSample(Info4, InfoAttr(11))

(* C16: with one sockdiag_free_samples after every call, whatever its   *)
(* outcome, every block a call allocated is freed exactly once: nothing *)
(* is freed twice, nothing is freed that was not allocated, and between *)
(* calls nothing remains allocated.                                     *)
C16_ReleasedExactlyOnce ==
    /\ ~bad
    /\ pc = "Idle" => c.live = {}

(* C17: no byte is read outside the datagram received: every header,    *)
(* record and attribute payload that is read, the whole tcp_info copied *)
(* for an extended-TCP-info attribute included, lies within its         *)
(* attribute, its envelope and the received length.                     *)
C17_ReadsWithinDatagram ==
    /\ ~c.pastAttr
    /\ ~c.pastRecv

(* C18: parsing a received datagram ends, whatever it holds: each       *)
(* iteration of the envelope loop takes at least an envelope header off *)
(* the bytes left and each iteration of the attribute loop at least an  *)
(* attribute header, so the envelopes and attributes visited are        *)
(* bounded by the received length, and the call goes on to the next     *)
(* receive or returns (or stops where an undefined operation trapped).  *)
C18_Measure ==
    /\ c.shrinks
    /\ NLMSG_HDRLEN * c.nenv <= c.n
    /\ SizeofRtattr * c.nattr <= c.n

C18_ControlReturns ==
    Received => pc' \in {"Draining", "Done", "Failed", "Crashed"}

C18_ParsingTerminates == [][C18_ControlReturns /\ C18_Measure']_vars

C18_Witness ==
    /\ pc = "Draining"
    /\ rx.any
    /\ c.nenv = 2
    /\ c.nattr = INIT_CAP + 1
    /\ c.len = 2 * INIT_CAP + 1

(* C19: sockdiag_open returns a handle on an open socket whose receive  *)
(* timeout of 1 second has been set, or it returns -1; where the socket *)
(* was created and setting the timeout failed, the socket is closed     *)
(* before the return, so a failed open leaves no descriptor open.       *)
C19_OpenOutcome ==
    /\ sock.fd # -1 => /\ sock.fd \in sock.fds
                       /\ sock.rcvtimeo = 1
                       /\ sock.why = "ok"
    /\ sock.fd = -1 => sock.fds = {}
    /\ sock.why \in {"socket", "sockopt"} => sock.fd = -1

C19_Witness ==
    /\ sock.why = "sockopt"
    /\ sock.fd = -1
    /\ sock.fds = {}
    /\ c.req = 1

\* an envelope, neither end-of-dump nor error, that declares its own size
\* and is no longer than the header and the connection-info record
ShortEnv(e) ==
    /\ ~IsTerminal(e)
    /\ EnvWF(e)
    /\ e.nlmsg_len <= NLMSG_LENGTH(SizeofInetDiagMsg)

HasShort(d) == \E i \in 1..Len(Before(d)) : ShortEnv(d[i])

\* a datagram of short and regular envelopes
ShortOrRegular(d) ==
    /\ \A i \in 1..Len(Before(d)) : ShortEnv(d[i]) \/ EnvRegular(d[i])
    /\ FirstTerminal(d) # 0 => EnvWF(d[FirstTerminal(d)])

\* the envelopes of d, up to its first end-of-dump or error envelope,
\* that are longer than the header and the record
Longer(d) == {i \in 1..Len(Before(d)) : ~ShortEnv(d[i])}

(* C20: for an envelope, neither end-of-dump nor error, whose declared  *)
(* length is at most the header plus the connection-info record, the    *)
(* attribute byte count (declared length - header-and-record length,    *)
(* stored in an int) is never positive: parse_response is not called    *)
(* for it, no sample is appended for it, and parsing goes on with the   *)
(* envelope after it.                                                   *)
C20_NeverPositive ==
    \A L \in 0..NLMSG_LENGTH(SizeofInetDiagMsg) :
        SubToInt(L, NLMSG_LENGTH(SizeofInetDiagMsg)) <= 0

C20_ShortSkipped ==
    (/\ rx.any
     /\ HasShort(rx.dg.envs)
     /\ ShortOrRegular(rx.dg.envs)
     /\ c.status # "crashed")
    => /\ c.walks = Cardinality(Longer(rx.dg.envs))
       /\ c.len = rx.len + Len(ConcatRef(Before(rx.dg.envs)))
       /\ c.nenv = Len(Before(rx.dg.envs))
                   + (IF FirstTerminal(rx.dg.envs) = 0 THEN 0 ELSE 1)

C20_ShortEnvelope ==
    /\ C20_NeverPositive
    /\ C20_ShortSkipped

C20_Witness ==
    /\ pc = "Draining"
    /\ rx.any
    /\ rx.dg.envs = <<HeaderOnly, ShortRaw, InfoBare, Info4>>
    /\ c.nenv = 4
    /\ c.walks = 1
    /\ c.len = 1
    /\ c.mem[1] = RefSample(Info4, InfoAttr(11))

====
